---- MODULE Spec2Model ----
(***************************************************************************)
(* A model of agate's certificate store (src/src/certificates.rs):         *)
(* load_domain, CertStore::load_from (fallback probe, directory scan,      *)
(* sort) and CertStore::resolve.                                           *)
(*                                                                         *)
(* Strings are sequences of one-character strings and are compared, split  *)
(* and suffix-tested byte by byte, as Rust's str does.  The file system is *)
(* the part of the certificate directory the code looks at.  Files that    *)
(* exist are readable and directory names are UTF-8, so the unwrap() calls *)
(* of lines 90, 100 and 157 succeed.                                       *)
(***************************************************************************)
EXTENDS Integers, Sequences, FiniteSets, TLC

VARIABLES fs, store, answer, probe, trial

vars == <<fs, store, answer, probe, trial>>

----------------------------------------------------------------------------
(* Bounds of the model.                                                    *)

\* longest directory name / hostname of the resolution specification
MaxLen == 2
\* most subdirectories of the certificate directory
MaxDirs == 2
\* longest label of a chain of dot-suffixes
MaxChainLen == 5
\* longest label handed to the sort comparator on its own
MaxCmpLen == 3
\* most entries of the certificate directory in the loading specification
MaxEntries == 2

----------------------------------------------------------------------------
(* Strings.                                                                *)

Alphabet == {"a", "b", "."}

\* the byte of a character (ASCII)
Byte(c) == CASE c = "." -> 46 [] c = "a" -> 97 [] c = "b" -> 98

Strings(n) == UNION {[1..k -> Alphabet] : k \in 0..n}

Empty == <<>>

Dot == <<".">>

Min(S) == CHOOSE x \in S : \A y \in S : x <= y

\* std::cmp::Ordering
IntCmp(m, n) == IF m < n THEN "Less" ELSE IF m > n THEN "Greater" ELSE "Equal"

OrdReverse(o) == CASE o = "Less" -> "Greater" [] o = "Greater" -> "Less" [] OTHER -> "Equal"

\* str::cmp: lexicographic by bytes
RECURSIVE StrCmp(_, _)
StrCmp(x, y) ==
    IF x = <<>> \/ y = <<>>
    THEN IntCmp(Len(x), Len(y))
    ELSE IF Head(x) # Head(y)
         THEN IntCmp(Byte(Head(x)), Byte(Head(y)))
         ELSE StrCmp(Tail(x), Tail(y))

\* str::split('.'): the pieces between the dots; the empty string has one
\* (empty) piece
RECURSIVE Split(_)
Split(s) ==
    LET dots == {i \in 1..Len(s) : s[i] = "."}
    IN  IF dots = {}
        THEN <<s>>
        ELSE <<SubSeq(s, 1, Min(dots) - 1)>> \o Split(SubSeq(s, Min(dots) + 1, Len(s)))

\* Iterator::rev
Rev(q) == [i \in 1..Len(q) |-> q[Len(q) + 1 - i]]

\* a suffix test that only matches at a dot or at the start of the name
EndsWithAtDot(name, s) ==
    /\ Len(s) <= Len(name)
    /\ SubSeq(name, Len(name) - Len(s) + 1, Len(name)) = s
    /\ (Len(s) = Len(name) \/ name[Len(name) - Len(s)] = ".")

\* str::ends_with: a literal suffix test
EndsWith(name, s) ==
    /\ Len(s) <= Len(name)
    /\ SubSeq(name, Len(name) - Len(s) + 1, Len(name)) = s

\* webpki's DNSNameRef::try_from_ascii_str succeeds, for names over the
\* alphabet: not empty, no empty label other than the one a trailing dot makes
IsDnsName(s) ==
    /\ s # <<>>
    /\ s[1] # "."
    /\ \A i \in 1..(Len(s) - 1) : ~(s[i] = "." /\ s[i + 1] = ".")

DnsNames(n) == {s \in Strings(n) : IsDnsName(s)}

----------------------------------------------------------------------------
(* Values.                                                                 *)

CERT_FILE_NAME == "cert.pem"

KEY_FILE_NAME == "key.rsa"

\* Option
None == [tag |-> "None"]

Some(x) == [tag |-> "Some", value |-> x]

\* Result
Ok(x) == [tag |-> "Ok", value |-> x]

Err(kind, domain) == [tag |-> "Err", kind |-> kind, domain |-> domain]

\* what a certificate file holds: nothing that parses, a chain that does not
\* cover the name of its directory, or one that does
CertStates == {"absent", "malformed", "mismatch", "good"}

\* what a key file holds: no PKCS#8 key, a key that is no usable RSA key, or
\* a usable one
KeyStates == {"absent", "nokey", "notrsa", "good"}

\* the files of one directory
Files(c, k) == [x \in {CERT_FILE_NAME, KEY_FILE_NAME} |->
                   IF x = CERT_FILE_NAME THEN c ELSE k]

\* CertifiedKey::new(cert_chain, key): the identity made of the two files of
\* the directory `domain`
CertifiedKey(domain, cert) == [cert_chain |-> <<domain, CERT_FILE_NAME, cert>>,
                               key |-> <<domain, KEY_FILE_NAME>>]

\* the directory a domain is loaded from: the root itself for "."
DirOf(tree, domain) == IF domain = Dot THEN tree.root ELSE tree.entries[domain].files

----------------------------------------------------------------------------
(* load_domain                                                             *)

\* load_domain looking for both files before it parses either
load_domain_presence_first(tree, domain) ==
    LET dir == DirOf(tree, domain)
    IN  IF dir[CERT_FILE_NAME] = "absent"
        THEN IF dir[KEY_FILE_NAME] = "absent"
             THEN Err("EmptyDomain", domain)
             ELSE Err("MissingCert", domain)
        ELSE IF dir[KEY_FILE_NAME] = "absent"
        THEN Err("MissingKey", domain)
        ELSE IF dir[CERT_FILE_NAME] = "malformed"
        THEN Err("BadCert", domain)
        ELSE IF dir[KEY_FILE_NAME] \in {"nokey", "notrsa"}
        THEN Err("BadKey", domain)
        ELSE Ok(CertifiedKey(domain, dir[CERT_FILE_NAME]))

load_domain(tree, domain) ==
    LET dir == DirOf(tree, domain)
    IN  IF dir[CERT_FILE_NAME] = "absent"
        THEN IF dir[KEY_FILE_NAME] = "absent"
             THEN Err("EmptyDomain", domain)
             ELSE Err("MissingCert", domain)
        ELSE IF dir[CERT_FILE_NAME] = "malformed"
        THEN Err("BadCert", domain)
        ELSE IF dir[KEY_FILE_NAME] = "absent"
        THEN Err("MissingKey", domain)
        ELSE IF dir[KEY_FILE_NAME] = "nokey"
        THEN Err("BadKey", domain)
        ELSE IF dir[KEY_FILE_NAME] = "notrsa"
        THEN Err("BadKey", domain)
        ELSE Ok(CertifiedKey(domain, dir[CERT_FILE_NAME]))

\* CertifiedKey::cross_check_end_entity_cert(Some(dns_name)) succeeds
cross_check_end_entity_cert(key) == key.cert_chain[3] = "good"

----------------------------------------------------------------------------
(* CertStore::load_from                                                    *)

Fallback == "fallback"

\* lines 126-145: the fallback probe; the list of entries it leaves, or the
\* error it returns
FallbackProbe(tree) ==
    LET r == load_domain(tree, Dot)
    IN  IF r.tag = "Ok"
        THEN Ok(<<[label |-> Empty, key |-> r.value]>>)
        ELSE IF r.kind = "EmptyDomain"
        THEN Ok(<<>>)
        ELSE Err(r.kind, Fallback)

\* the loop passing over a subdirectory without files, as the fallback probe
\* passes over a root without files
RECURSIVE ScanDirsSkipEmpty(_, _, _, _)
ScanDirsSkipEmpty(tree, order, i, certs) ==
    IF i > Len(order)
    THEN Ok(certs)
    ELSE LET filename == order[i]
             r == load_domain(tree, filename)
         IN  IF ~IsDnsName(filename)
             THEN Err("BadDomain", filename)
             ELSE IF r.tag = "Err" /\ r.kind = "EmptyDomain"
             THEN ScanDirsSkipEmpty(tree, order, i + 1, certs)
             ELSE IF r.tag = "Err"
             THEN r
             ELSE IF ~cross_check_end_entity_cert(r.value)
             THEN Err("BadCert", filename)
             ELSE ScanDirsSkipEmpty(tree, order, i + 1,
                                    Append(certs, [label |-> filename, key |-> r.value]))

\* lines 147-171: the loop over the subdirectories in the order read_dir
\* gives them, from the i-th on
RECURSIVE ScanDirs(_, _, _, _)
ScanDirs(tree, order, i, certs) ==
    IF i > Len(order)
    THEN Ok(certs)
    ELSE LET filename == order[i]
             r == load_domain(tree, filename)
         IN  IF ~IsDnsName(filename)
             THEN Err("BadDomain", filename)
             ELSE IF r.tag = "Err"
             THEN r
             ELSE IF ~cross_check_end_entity_cert(r.value)
             THEN Err("BadCert", filename)
             ELSE ScanDirs(tree, order, i + 1,
                           Append(certs, [label |-> filename, key |-> r.value]))

\* the comparator without the `.reverse()` of line 182: shorter domains first
cmp_domains_shorter_first(a, b) ==
    LET ra == Rev(Split(a))
        rb == Rev(Split(b))
        n  == IF Len(ra) < Len(rb) THEN Len(ra) ELSE Len(rb)
        differ == {k \in 1..n : ra[k] # rb[k]}
    IN  IF differ # {}
        THEN StrCmp(ra[Min(differ)], rb[Min(differ)])
        ELSE IntCmp(Len(a), Len(b))

\* the comparator without the `.rev()` of line 176: components compared from
\* the left
cmp_domains_from_left(a, b) ==
    LET ra == Split(a)
        rb == Split(b)
        n  == IF Len(ra) < Len(rb) THEN Len(ra) ELSE Len(rb)
        differ == {k \in 1..n : ra[k] # rb[k]}
    IN  IF differ # {}
        THEN StrCmp(ra[Min(differ)], rb[Min(differ)])
        ELSE OrdReverse(IntCmp(Len(a), Len(b)))

\* lines 173-183: the comparator of the sort
cmp_domains(a, b) ==
    LET ra == Rev(Split(a))
        rb == Rev(Split(b))
        n  == IF Len(ra) < Len(rb) THEN Len(ra) ELSE Len(rb)
        differ == {k \in 1..n : ra[k] # rb[k]}
    IN  IF differ # {}
        THEN StrCmp(ra[Min(differ)], rb[Min(differ)])
        ELSE OrdReverse(IntCmp(Len(a), Len(b)))

\* the orders of a set, as sequences
Orders(S) ==
    LET n == Cardinality(S)
    IN  {q \in [1..n -> S] : \A i, j \in 1..n : i # j => q[i] # q[j]}

\* no sort: the entries stay in the order they were pushed
sort_skipped(certs) == {certs}

\* slice::sort_unstable_by: every arrangement of the list in which no entry
\* stands before one the comparator puts before it
sort_unstable_by(certs) ==
    LET n == Len(certs)
    IN  {[i \in 1..n |-> certs[p[i]]] : p \in
            {p \in Orders(1..n) :
                \A i, j \in 1..n :
                    i < j => cmp_domains(certs[p[i]].label, certs[p[j]].label) # "Greater"}}

\* the subdirectories read_dir lists: entries that are not directories are
\* skipped (line 151)
SubDirs(tree) == {d \in DOMAIN tree.entries : tree.entries[d].is_dir}

\* the values load_from can return for a tree: one for each order of
\* enumeration and each outcome of the sort
load_from(tree) ==
    LET fb == FallbackProbe(tree)
    IN  IF fb.tag = "Err"
        THEN {fb}
        ELSE IF ~tree.listable
        THEN {Err("NoReadCertDir", Empty)}
        ELSE UNION {LET r == ScanDirs(tree, order, 1, fb.value)
                    IN  IF r.tag = "Err"
                        THEN {r}
                        ELSE {Ok(s) : s \in sort_unstable_by(r.value)}
                    : order \in Orders(SubDirs(tree))}

----------------------------------------------------------------------------
(* CertStore::resolve                                                      *)

\* lines 193-197: the first entry, from the i-th on, whose label the name
\* ends with
RECURSIVE Find(_, _, _)
Find(certs, name, i) ==
    IF i > Len(certs)
    THEN None
    ELSE IF EndsWith(name, certs[i].label)
         THEN Some(certs[i].key)
         ELSE Find(certs, name, i + 1)

\* resolve taking a missing server name for the empty name
resolve_without_sni_check(certs, server_name) ==
    IF server_name.tag = "Some"
    THEN Find(certs, server_name.value, 1)
    ELSE Find(certs, Empty, 1)

\* server_name is None (no SNI) or Some(name)
resolve(certs, server_name) ==
    IF server_name.tag = "Some"
    THEN Find(certs, server_name.value, 1)
    ELSE None

----------------------------------------------------------------------------
(* The state machine.                                                      *)
(*                                                                         *)
(* fs      the certificate directory                                       *)
(* store   what load_from returned to each of the two processes that build *)
(*         a store from the directory (None before the call)               *)
(* answer  the last call of resolve and what it returned                   *)
(* probe   the last call of load_domain on its own and what it returned    *)
(* trial   labels handed to the sort comparator, and its verdicts          *)

Stores == {1, 2}

Range(q) == {q[i] : i \in DOMAIN q}

\* the sets of at most n elements of S
UpTo(S, n) == UNION {{Range(q) : q \in [1..k -> S]} : k \in 0..n}

PlainFile == [is_dir |-> FALSE, files |-> Files("absent", "absent")]

Directory(c, k) == [is_dir |-> TRUE, files |-> Files(c, k)]

Tree(rc, rk, listable, entries) ==
    [root |-> Files(rc, rk), listable |-> listable, entries |-> entries]

\* the hostnames a client can send: DNS names, and every name of the tree
Hostnames == DnsNames(MaxLen) \cup {d \in DOMAIN fs.entries : IsDnsName(d)}

Idle ==
    /\ store = [p \in Stores |-> None]
    /\ answer = None
    /\ probe = None
    /\ trial = None

\* a certificate directory that loads: subdirectories named by DNS names, each
\* with a certificate for its name and a key; with or without a fallback pair
Init ==
    /\ \E D \in UpTo(DnsNames(MaxLen), MaxDirs),
          root \in {<<"absent", "absent">>, <<"good", "good">>, <<"mismatch", "good">>} :
          fs = Tree(root[1], root[2], TRUE, [d \in D |-> Directory("good", "good")])
    /\ Idle

\* the dot-suffixes of a name: the name, and what follows each of its dots
DotSuffixes(s) ==
    {SubSeq(s, i + 1, Len(s)) : i \in {0} \cup {i \in 1..Len(s) : s[i] = "."}} \ {Empty}

\* a certificate directory whose subdirectories are a chain of dot-suffixes,
\* without a fallback pair
InitChain ==
    /\ \E top \in DnsNames(MaxChainLen) :
          \E D \in (SUBSET DotSuffixes(top)) \ {{}} :
             fs = Tree("absent", "absent", TRUE, [d \in D |-> Directory("good", "good")])
    /\ Idle

\* two names that are DNS names and one that is not
LoadNames == {<<"a">>, <<"b">>, <<".", "a">>}

\* any certificate directory: entries that are plain files or directories,
\* and any state of every certificate and key file
InitLoad ==
    /\ \E D \in UpTo(LoadNames, MaxEntries) :
          \E entries \in [D -> {PlainFile} \cup
                               {Directory(c, k) : c \in CertStates, k \in KeyStates}],
             rc \in CertStates, rk \in KeyStates, listable \in BOOLEAN :
             fs = Tree(rc, rk, listable, entries)
    /\ Idle

\* labels for the comparator: DNS names and the empty label
CmpLabels == DnsNames(MaxCmpLen) \cup {Empty}

InitCmp ==
    /\ fs = Tree("absent", "absent", TRUE, <<>>)
    /\ store = [p \in Stores |-> None]
    /\ answer = None
    /\ probe = None
    /\ \E a, b, c \in CmpLabels :
          trial = [a |-> a, b |-> b, c |-> c, done |-> FALSE]

\* process p builds its store (once, at startup)
LoadFrom(p) ==
    /\ store[p] = None
    /\ \E r \in load_from(fs) : store' = [store EXCEPT ![p] = r]
    /\ UNCHANGED <<fs, answer, probe, trial>>

\* the TLS engine asks the store of process p for a certificate
Resolve(p, server_name) ==
    /\ store[p] # None
    /\ store[p].tag = "Ok"
    /\ answer' = Some([store |-> p, server_name |-> server_name,
                       result |-> resolve(store[p].value, server_name)])
    /\ UNCHANGED <<fs, store, probe, trial>>

\* load_domain called for the root (".") or for a subdirectory
LoadDomain(domain) ==
    /\ probe' = Some([domain |-> domain, result |-> load_domain(fs, domain)])
    /\ UNCHANGED <<fs, store, answer, trial>>

\* the comparator applied to the pairs of the trial's labels
Compare ==
    /\ trial # None
    /\ ~trial.done
    /\ trial' = [trial EXCEPT !.done = TRUE] @@
                [ab |-> cmp_domains(trial.a, trial.b),
                 ba |-> cmp_domains(trial.b, trial.a),
                 bc |-> cmp_domains(trial.b, trial.c),
                 ac |-> cmp_domains(trial.a, trial.c)]
    /\ UNCHANGED <<fs, store, answer, probe>>

ServerNames == {None} \cup {Some(h) : h \in Hostnames}

Next ==
    \/ LoadFrom(1)
    \/ \E sn \in ServerNames : Resolve(1, sn)

NextTwin == \E p \in Stores : LoadFrom(p)

NextLoad ==
    \/ LoadFrom(1)
    \/ \E d \in {Dot} \cup SubDirs(fs) : LoadDomain(d)

NextCmp == Compare

Spec == Init /\ [][Next]_vars

SpecTwin == Init /\ [][NextTwin]_vars

SpecChain == InitChain /\ [][Next]_vars

SpecLoad == InitLoad /\ [][NextLoad]_vars

SpecCmp == InitCmp /\ [][NextCmp]_vars

----------------------------------------------------------------------------
(* The properties.                                                         *)

\* process p holds a store
Loaded(p) == store[p].tag = "Ok"

\* the labels of a list of entries
Labels(certs) == {certs[i].label : i \in 1..Len(certs)}

\* the identity made of the files of a directory ("." for the root)
IdentityOf(domain) == CertifiedKey(domain, DirOf(fs, domain)[CERT_FILE_NAME])

\* s is what is left of name after some of its first characters are dropped
IsSuffix(s, name) == \E k \in 0..Len(name) : SubSeq(name, k + 1, Len(name)) = s

\* b is what follows one of the dots of a
IsProperDotSuffix(b, a) == \E k \in 1..Len(a) : a[k] = "." /\ SubSeq(a, k + 1, Len(a)) = b

\* the subdirectories are totally ordered by "is a dot-suffix of"
IsChain(D) == \A x, y \in D : x = y \/ IsProperDotSuffix(x, y) \/ IsProperDotSuffix(y, x)

NoFallbackFiles == fs.root = Files("absent", "absent")

\* resolve was called with a hostname
AskedName == answer.tag = "Some" /\ answer.value.server_name.tag = "Some"

\* resolve was called without a hostname
AskedNoName == answer.tag = "Some" /\ answer.value.server_name.tag = "None"

\* C1: in a store whose labels are a chain of dot-suffixes, without a
\* fallback, resolve of a hostname equal to a label returns the identity of
\* that label
C1_MostSpecificWins ==
    (/\ AskedName
     /\ NoFallbackFiles
     /\ IsChain(SubDirs(fs))
     /\ answer.value.server_name.value \in SubDirs(fs))
    => answer.value.result = Some(IdentityOf(answer.value.server_name.value))

\* a chain of three labels is stored and the longest one is asked for and found
C1_Witness ==
    /\ AskedName
    /\ NoFallbackFiles
    /\ IsChain(SubDirs(fs))
    /\ Cardinality(SubDirs(fs)) = 3
    /\ \A d \in SubDirs(fs) : Len(d) <= Len(answer.value.server_name.value)
    /\ answer.value.server_name.value \in SubDirs(fs)
    /\ answer.value.result = Some(IdentityOf(answer.value.server_name.value))

\* C2: resolve of a hostname equal to a stored domain label returns the
\* identity loaded for that label, with or without a fallback entry
C2_ExactHostname ==
    (/\ AskedName
     /\ answer.value.server_name.value \in Labels(store[answer.value.store].value))
    => answer.value.result = Some(IdentityOf(answer.value.server_name.value))

\* C3: with a fallback entry and domain entries in the store, resolve returns
\* the fallback identity if and only if no non-empty stored label is a suffix
\* of the hostname
C3_FallbackOnlyCatchAll ==
    (/\ AskedName
     /\ Empty \in Labels(store[answer.value.store].value)
     /\ Labels(store[answer.value.store].value) # {Empty})
    => (answer.value.result = Some(IdentityOf(Dot))
        <=> ~\E l \in Labels(store[answer.value.store].value) \ {Empty} :
                IsSuffix(l, answer.value.server_name.value))

\* C4: resolve without a hostname returns no identity and leaves the store
\* as it was
C4_NoSni ==
    [][(answer' # answer /\ answer'.value.server_name.tag = "None")
          => (answer'.value.result = None /\ store' = store)]_vars

\* resolve was called without a hostname on a store that holds a fallback
C4_Witness ==
    /\ AskedNoName
    /\ Empty \in Labels(store[answer.value.store].value)
    /\ answer.value.result = None

\* C5: resolve returns the identity of the first entry in stored order whose
\* label is a literal suffix of the hostname, and no identity exactly when no
\* stored label is a suffix of it
C5_FirstMatch ==
    AskedName =>
        LET certs == store[answer.value.store].value
            hits  == {i \in 1..Len(certs) :
                         IsSuffix(certs[i].label, answer.value.server_name.value)}
        IN  /\ hits # {} => answer.value.result = Some(certs[Min(hits)].key)
            /\ hits = {} <=> answer.value.result = None

\* two stored labels are suffixes of the hostname and the first one was taken
C5_Witness ==
    /\ AskedName
    /\ LET certs == store[answer.value.store].value
           hits  == {i \in 1..Len(certs) :
                        IsSuffix(certs[i].label, answer.value.server_name.value)}
       IN  /\ Cardinality(hits) >= 2
           /\ answer.value.result = Some(certs[Min(hits)].key)
           /\ \E i \in hits : certs[i].key # certs[Min(hits)].key

\* a subdirectory that load_from accepts: a DNS name, a certificate for the
\* name, a usable key
DirLoads(d) ==
    /\ IsDnsName(d)
    /\ fs.entries[d].files[CERT_FILE_NAME] = "good"
    /\ fs.entries[d].files[KEY_FILE_NAME] = "good"

\* the root holds a pair load_domain accepts
RootPair ==
    /\ fs.root[CERT_FILE_NAME] \in {"good", "mismatch"}
    /\ fs.root[KEY_FILE_NAME] = "good"

C7_PresenceClassification ==
    probe.tag = "Some" =>
        LET dir == DirOf(fs, probe.value.domain)
            c   == dir[CERT_FILE_NAME]
            k   == dir[KEY_FILE_NAME]
        IN  /\ (c = "absent" /\ k = "absent")
                  => probe.value.result = Err("EmptyDomain", probe.value.domain)
            /\ (c # "absent" /\ k = "absent")
                  => probe.value.result = Err("MissingKey", probe.value.domain)
            /\ (c = "absent" /\ k # "absent")
                  => probe.value.result = Err("MissingCert", probe.value.domain)

\* C7 amended: EmptyDomain when neither file exists, MissingCert when only the
\* key file exists, MissingKey when the certificate file exists and parses and
\* the key file does not exist, BadCert when the certificate file exists and
\* does not parse, whether or not the key file exists
C7_PresenceClassificationAmended ==
    probe.tag = "Some" =>
        LET dir == DirOf(fs, probe.value.domain)
            c   == dir[CERT_FILE_NAME]
            k   == dir[KEY_FILE_NAME]
        IN  /\ (c = "absent" /\ k = "absent")
                  => probe.value.result = Err("EmptyDomain", probe.value.domain)
            /\ (c \in {"good", "mismatch"} /\ k = "absent")
                  => probe.value.result = Err("MissingKey", probe.value.domain)
            /\ c = "malformed"
                  => probe.value.result = Err("BadCert", probe.value.domain)
            /\ (c = "absent" /\ k # "absent")
                  => probe.value.result = Err("MissingCert", probe.value.domain)

\* load_domain ran on a subdirectory with a certificate that parses and no
\* key file
C7_Witness ==
    /\ probe.tag = "Some"
    /\ probe.value.domain # Dot
    /\ DirOf(fs, probe.value.domain)[CERT_FILE_NAME] = "mismatch"
    /\ DirOf(fs, probe.value.domain)[KEY_FILE_NAME] = "absent"
    /\ probe.value.result = Err("MissingKey", probe.value.domain)

\* C8: two stores built from the same tree hold the same entries in the same
\* order, and give the same answer to every hostname and to no hostname
C8_Determinism ==
    (Loaded(1) /\ Loaded(2)) =>
        /\ store[1] = store[2]
        /\ \A sn \in ServerNames :
              resolve(store[1].value, sn) = resolve(store[2].value, sn)

\* two stores were built from a tree with two subdirectories and a fallback
C8_Witness ==
    /\ Loaded(1)
    /\ Loaded(2)
    /\ Cardinality(SubDirs(fs)) >= 2
    /\ Len(store[1].value) >= 3

\* C9: in a store with the fallback entry and a domain entry, the fallback
\* entry is the last one
C9_FallbackLast ==
    (/\ Loaded(1)
     /\ Empty \in Labels(store[1].value)
     /\ Len(store[1].value) >= 2)
    => store[1].value[Len(store[1].value)].label = Empty

\* C10: on distinct labels the comparator is a strict total order, and it
\* puts a label before every proper dot-suffix of it
C10_StrictTotalOrder ==
    (trial # None /\ trial.done) =>
        /\ trial.a # trial.b =>
              /\ trial.ab \in {"Less", "Greater"}
              /\ trial.ba \in {"Less", "Greater"}
              /\ trial.ab # trial.ba
        /\ (trial.ab = "Less" /\ trial.bc = "Less") => trial.ac = "Less"
        /\ IsProperDotSuffix(trial.b, trial.a) => trial.ab = "Less"

\* the comparator ordered a label before a proper dot-suffix of it, and both
\* before a third label
C10_Witness ==
    /\ trial # None
    /\ trial.done
    /\ IsProperDotSuffix(trial.b, trial.a)
    /\ trial.b # Empty
    /\ trial.c \notin {trial.a, trial.b}
    /\ trial.ab = "Less"
    /\ trial.bc = "Less"
    /\ trial.ac = "Less"

====
